---- MODULE Spec2Model ----
(***************************************************************************)
(* Model of JVSPB6.py, the Jomar Valve submittal package builder: the      *)
(* cover-page layout functions (fit_multiline_text, draw_centered_stack,   *)
(* make_cover_pdf) and the Streamlit form that drives them (role and bid   *)
(* date checkboxes, file upload and ordering, Generate).                   *)
(*                                                                         *)
(* Text is a sequence of one-character strings, so that upper-casing,      *)
(* number formatting and glyph widths are computed character by character. *)
(* Python floats are modelled by exact rationals [n, d] in lowest terms    *)
(* with d > 0, so the properties below are exact where floats round.       *)
(***************************************************************************)
EXTENDS Integers, Sequences, FiniteSets

VARIABLES
    \* ---- Streamlit application state ----
    session,          \* st.session_state: checkbox key -> BOOLEAN
    party_name,       \* st.text_input("Company")
    project_name,     \* st.text_input("Project Name")
    project_location, \* st.text_input("Project Location")
    dp_date,          \* st.date_input("Date Prepared")
    bd_date,          \* st.date_input("Bid Date")
    uploaded_files,   \* st.file_uploader: sequence of file names, a file is its index
    sortable,         \* TRUE iff streamlit_sortables imported (drag UI), else numeric UI
    ord,              \* numeric fallback: the number_input value of each row
    drag,             \* drag UI: the label order the component returns
    logo_fs,          \* what the file system holds at default_logo_path
    cover,            \* result of make_cover_pdf in the last run, <<>> if none
    merger,           \* what was appended to the PdfMerger in the last run
    \* ---- direct calls of make_cover_pdf ----
    cov_in,           \* arguments of the call
    cov_out,          \* <<result>> once called
    \* ---- direct calls of fit_multiline_text / draw_centered_stack ----
    fit_in,           \* arguments of fit_multiline_text
    fit_out,          \* <<result>> once called
    fit_prev,         \* <<result>> for the line list before the last append
    stack_in,         \* arguments of draw_centered_stack
    stack_out         \* the drawn lines [txt, sz, y]

appVars   == <<session, party_name, project_name, project_location, dp_date, bd_date,
               uploaded_files, sortable, ord, drag, logo_fs, cover, merger>>
coverVars == <<cov_in, cov_out>>
fitVars   == <<fit_in, fit_out, fit_prev, stack_in, stack_out>>
vars      == <<appVars, coverVars, fitVars>>

-----------------------------------------------------------------------------
(* Bounds of the model *)

MaxLines == 3     \* longest line list given to fit_multiline_text
MaxFiles == 3     \* most files uploaded at once (SpecFiles)
MaxFormFiles == 1 \* most files uploaded at once while the whole form is exercised (Spec)

-----------------------------------------------------------------------------
(* Exact rational arithmetic standing for Python float arithmetic *)

Abs(x) == IF x < 0 THEN -x ELSE x

RECURSIVE GCD(_, _)
GCD(a, b) == IF b = 0 THEN a ELSE GCD(b, a % b)

Rat(n, d) ==
    LET s == IF d < 0 THEN -1 ELSE 1
        g == GCD(Abs(n), Abs(d))
    IN  [n |-> (s * n) \div g, d |-> (s * d) \div g]

RInt(i)    == [n |-> i, d |-> 1]
RAdd(a, b) == Rat(a.n * b.d + b.n * a.d, a.d * b.d)
RSub(a, b) == Rat(a.n * b.d - b.n * a.d, a.d * b.d)
RMul(a, b) == Rat(a.n * b.n, a.d * b.d)
RDiv(a, b) == Rat(a.n * b.d, a.d * b.n)
RLe(a, b)  == a.n * b.d <= b.n * a.d
RLt(a, b)  == a.n * b.d < b.n * a.d
RMin(a, b) == IF RLe(a, b) THEN a ELSE b
RMax(a, b) == IF RLe(b, a) THEN a ELSE b
IMax(a, b) == IF a >= b THEN a ELSE b

-----------------------------------------------------------------------------
(* Text *)

LowerCase == <<"a","b","c","d","e","f","g","h","i","j","k","l","m",
               "n","o","p","q","r","s","t","u","v","w","x","y","z">>
UpperCase == <<"A","B","C","D","E","F","G","H","I","J","K","L","M",
               "N","O","P","Q","R","S","T","U","V","W","X","Y","Z">>

\* str.upper(), one character: lower-case letters map to their capital, the rest stay
UpperChar(c) ==
    IF \E i \in 1..26 : LowerCase[i] = c
    THEN UpperCase[CHOOSE i \in 1..26 : LowerCase[i] = c]
    ELSE c

upper(s) == [i \in 1..Len(s) |-> UpperChar(s[i])]

DigitChar == <<"0","1","2","3","4","5","6","7","8","9">>

\* format of a non-negative int inside an f-string: decimal digits, no padding
RECURSIVE fmt_int(_)
fmt_int(k) ==
    IF k < 10 THEN <<DigitChar[k + 1]>>
    ELSE fmt_int(k \div 10) \o <<DigitChar[(k % 10) + 1]>>

\* Helvetica glyph advance widths in 1/1000 em (pdfmetrics.stringWidth at 1pt * 1000)
CharWidth(c) ==
    CASE c \in {" ", ",", ".", ":", "/", "I", "f", "t"} -> 278
      [] c \in {"0","1","2","3","4","5","6","7","8","9"} -> 556
      [] c \in {"A","B","E","K","P","S","V","X","Y"} -> 667
      [] c \in {"C","D","H","N","R","U","w"} -> 722
      [] c \in {"F","T","Z"} -> 611
      [] c \in {"G","O","Q"} -> 778
      [] c \in {"M","m"} -> 833
      [] c = "W" -> 944
      [] c = "J" -> 500
      [] c \in {"L","a","b","d","e","g","h","n","o","p","q","u"} -> 556
      [] c \in {"c","k","s","v","x","y","z"} -> 500
      [] c \in {"i","j","l"} -> 222
      [] c = "r" -> 333
      [] OTHER -> 0

RECURSIVE SumWidth(_)
SumWidth(txt) == IF txt = <<>> THEN 0 ELSE CharWidth(Head(txt)) + SumWidth(Tail(txt))

\* pdfmetrics.stringWidth(txt, "Helvetica", 1.0)
stringWidth1(txt) == Rat(SumWidth(txt), 1000)

\* pdfmetrics.getAscent("Helvetica") and abs(pdfmetrics.getDescent("Helvetica"))
HelveticaAscent  == 718
HelveticaDescent == 207
asc_u == Rat(HelveticaAscent, 1000)
des_u == Rat(HelveticaDescent, 1000)

-----------------------------------------------------------------------------
(* fit_multiline_text *)

safe_extent(bar, pad) == IMax(bar - 2 * pad, 1)

\* the per-line caps of the non-empty lines of positive width
RECURSIVE width_caps(_, _)
width_caps(lines, safe_w) ==
    IF lines = <<>> THEN <<>>
    ELSE LET txt    == Head(lines)
             unit_w == stringWidth1(txt)
             rest   == width_caps(Tail(lines), safe_w)
         IN  IF txt = <<>> THEN rest
             ELSE IF unit_w.n > 0 THEN <<RDiv(RInt(safe_w), unit_w)>> \o rest
             ELSE rest

RECURSIVE min_of(_)
min_of(caps) ==
    IF Len(caps) = 1 THEN caps[1] ELSE RMin(caps[1], min_of(Tail(caps)))

width_cap_of(lines, safe_w, max_pt) ==
    LET caps == width_caps(lines, safe_w)
    IN  IF caps # <<>> THEN min_of(caps) ELSE RInt(max_pt)

height_cap_swapped(n, safe_h, max_pt, leading_factor) ==
    IF n > 1 THEN RMul(RInt(safe_h), RMul(RInt(n - 1), leading_factor))
    ELSE RInt(max_pt)

height_cap_of(n, safe_h, max_pt, leading_factor) ==
    IF n > 1 THEN RDiv(RInt(safe_h), RMul(RInt(n - 1), leading_factor))
    ELSE RInt(max_pt)

fit_size_noclamp(width_cap, height_cap, max_pt, min_pt) ==
    RMax(RMin(width_cap, height_cap), RInt(min_pt))

fit_size(width_cap, height_cap, max_pt, min_pt) ==
    RMax(RMin(RMin(width_cap, height_cap), RInt(max_pt)), RInt(min_pt))

fit_multiline_text(lines, bar_width, bar_height, side_pad, v_pad, max_pt, min_pt, leading_factor) ==
    LET safe_w     == safe_extent(bar_width, side_pad)
        safe_h     == safe_extent(bar_height, v_pad)
        width_cap  == width_cap_of(lines, safe_w, max_pt)
        n          == Len(lines)
        height_cap == height_cap_of(n, safe_h, max_pt, leading_factor)
        size       == fit_size(width_cap, height_cap, max_pt, min_pt)
        leading    == RMul(size, leading_factor)
    IN  [sizes |-> [i \in 1..n |-> size], leading |-> leading]

-----------------------------------------------------------------------------
(* draw_centered_stack: the text-drawing calls it makes, top line first *)

first_baseline_naive(y_center, block_h, asc0, optical_adjust) ==
    RAdd(RAdd(y_center, RDiv(block_h, RInt(2))), optical_adjust)

first_baseline(y_center, block_h, asc0, optical_adjust) ==
    RAdd(RSub(RAdd(y_center, RDiv(block_h, RInt(2))), asc0), optical_adjust)

draw_centered_stack(y_center, lines, sizes, leading, optical_adjust) ==
    IF lines = <<>> THEN <<>>
    ELSE
    LET asc0      == RMul(asc_u, sizes[1])
        des_last  == RMul(des_u, sizes[Len(sizes)])
        interline == RMul(leading, RInt(Len(lines) - 1))
        block_h   == RAdd(RAdd(asc0, interline), des_last)
        first_baseline_y == first_baseline(y_center, block_h, asc0, optical_adjust)
        k         == IF Len(lines) <= Len(sizes) THEN Len(lines) ELSE Len(sizes)
    IN  [i \in 1..k |->
            [txt |-> lines[i], sz |-> sizes[i],
             y |-> RSub(first_baseline_y, RMul(RInt(i - 1), leading))]]

-----------------------------------------------------------------------------
(* Literal texts of the source *)

TO_BE_CONFIRMED   == <<"T","O"," ","B","E"," ","C","O","N","F","I","R","M","E","D">>
To_Be_Confirmed   == <<"T","o"," ","B","e"," ","C","o","n","f","i","r","m","e","d">>
SUBMITTAL_PACKAGE == <<"S","U","B","M","I","T","T","A","L"," ","P","A","C","K","A","G","E">>
Recipient         == <<"R","e","c","i","p","i","e","n","t">>
DATE_PREPARED_    == <<"D","A","T","E"," ","P","R","E","P","A","R","E","D",":"," ">>
BID_DATE_         == <<"B","I","D"," ","D","A","T","E",":"," ">>
BID_DATE_TBC      == <<"B","I","D"," ","D","A","T","E",":"," ",
                       "T","O"," ","B","E"," ","C","O","N","F","I","R","M","E","D">>
Contractor        == <<"C","o","n","t","r","a","c","t","o","r">>
Engineer          == <<"E","n","g","i","n","e","e","r">>
Distributor       == <<"D","i","s","t","r","i","b","u","t","o","r">>
Utility           == <<"U","t","i","l","i","t","y">>

\* Python None and the empty string are both falsy; the code only tests truthiness
None == <<>>

\* a datetime.date, wrapped so that None (<<>>) and a date compare
Date(y, m, d) == <<[year |-> y, month |-> m, day |-> d]>>

-----------------------------------------------------------------------------
(* format_mdY *)

format_mdY_padded(d, blank) ==
    IF d = None THEN blank
    ELSE LET pad2(k) == IF k < 10 THEN <<"0">> \o fmt_int(k) ELSE fmt_int(k)
         IN  pad2(d[1].month) \o <<"/">> \o pad2(d[1].day) \o <<"/">> \o fmt_int(d[1].year)

format_mdY(d, blank) ==
    IF d = None THEN blank
    ELSE fmt_int(d[1].month) \o <<"/">> \o fmt_int(d[1].day) \o <<"/">> \o fmt_int(d[1].year)

-----------------------------------------------------------------------------
(* make_cover_pdf *)

PageWidth      == 612     \* reportlab letter, points
PageHeight     == 792
bar_height     == 140
title_side_pad == 48
title_v_pad    == 18
title_max_pt   == 36
title_min_pt   == 14
title_leading_factor == Rat(112, 100)
bottom_block_y == 140
bottom_size    == 12
bottom_leading == 18

bar_y == RSub(RDiv(RInt(PageHeight), RInt(2)), RDiv(RInt(bar_height), RInt(2)))

\* os.path.exists(logo_path) for the file-system state fs
path_exists(fs) == fs \in {"unreadable", "ok"}

\* the logo branch: what it draws, what it warns, whether an exception leaves it
logo_step_uncaught(logo_path, fs) ==
    IF logo_path # <<>> /\ path_exists(fs)
    THEN IF fs = "unreadable"
         THEN [drawn |-> FALSE, warnings |-> <<>>, raised |-> TRUE]
         ELSE [drawn |-> TRUE, warnings |-> <<>>, raised |-> FALSE]
    ELSE [drawn |-> FALSE, warnings |-> <<"Logo file not found">>, raised |-> FALSE]

logo_step(logo_path, fs) ==
    IF logo_path # <<>> /\ path_exists(fs)
    THEN IF fs = "unreadable"   \* ImageReader / drawImage raises, caught by except
         THEN [drawn |-> FALSE, warnings |-> <<"Logo draw error">>, raised |-> FALSE]
         ELSE [drawn |-> TRUE, warnings |-> <<>>, raised |-> FALSE]
    ELSE [drawn |-> FALSE, warnings |-> <<"Logo file not found">>, raised |-> FALSE]

title_lines_of(name, location) ==
    << upper(IF name # <<>> THEN name ELSE TO_BE_CONFIRMED),
       upper(IF location # <<>> THEN location ELSE TO_BE_CONFIRMED),
       SUBMITTAL_PACKAGE >>

first_line_of(party_label, party) ==
    LET role_label  == upper(IF party_label # None THEN party_label ELSE Recipient)
        company_txt == upper(IF party # <<>> THEN party ELSE To_Be_Confirmed)
    IN  role_label \o <<":", " ">> \o company_txt

date_prepared_line(date_prepared) ==
    DATE_PREPARED_ \o upper(format_mdY(date_prepared, To_Be_Confirmed))

bid_lines_date_first(bid_date, bid_date_tbc, bid_date_na) ==
    IF ~bid_date_na
    THEN IF bid_date = None
         THEN <<BID_DATE_TBC>>
         ELSE <<BID_DATE_ \o upper(format_mdY(bid_date, To_Be_Confirmed))>>
    ELSE <<>>

\* BID DATE handling: the lines appended to lines_bottom
bid_lines(bid_date, bid_date_tbc, bid_date_na) ==
    IF ~bid_date_na
    THEN IF bid_date_tbc \/ bid_date = None
         THEN <<BID_DATE_TBC>>
         ELSE <<BID_DATE_ \o upper(format_mdY(bid_date, To_Be_Confirmed))>>
    ELSE <<>>

make_cover_pdf(logo_path, fs, name, location, party_label, party, date_prepared, bid_date, bid_date_tbc, bid_date_na) ==
    LET lg == logo_step(logo_path, fs)
        title_lines  == title_lines_of(name, location)
        fit          == fit_multiline_text(title_lines, PageWidth, bar_height,
                                           title_side_pad, title_v_pad,
                                           title_max_pt, title_min_pt,
                                           title_leading_factor)
        title_draw   == draw_centered_stack(
                            RAdd(bar_y, RDiv(RInt(bar_height), RInt(2))),
                            title_lines, fit.sizes, fit.leading, RInt(0))
        lines_bottom == <<first_line_of(party_label, party),
                          date_prepared_line(date_prepared)>>
                        \o bid_lines(bid_date, bid_date_tbc, bid_date_na)
        bottom_draw  == draw_centered_stack(
                            RInt(bottom_block_y), lines_bottom,
                            [i \in 1..Len(lines_bottom) |-> RInt(bottom_size)],
                            RInt(bottom_leading), RInt(0))
    IN  IF lg.raised
        THEN [completed |-> FALSE, pages |-> 0,
              ops |-> <<"border", "banner">>, warnings |-> lg.warnings,
              title |-> <<>>, bottom |-> <<>>]
        ELSE [completed |-> TRUE, pages |-> 1,
              ops |-> <<"border", "banner">>
                      \o (IF lg.drawn THEN <<"logo">> ELSE <<>>)
                      \o <<"title", "bottom", "showPage", "save">>,
              warnings |-> lg.warnings,
              title |-> title_draw, bottom |-> bottom_draw]

-----------------------------------------------------------------------------
(* Values of the variables a specification does not use *)

RoleNames == <<Contractor, Engineer, Distributor, Utility>>
RoleKeys  == <<"aud_contractor", "aud_engineer", "aud_distributor", "aud_utility">>
TbcKey    == "bd_tbc"
NaKey     == "bd_na"
SessionKeys == {RoleKeys[i] : i \in 1..4} \cup {TbcKey, NaKey}

Dates == {Date(2024, 3, 5), Date(2026, 11, 23)}

\* st.date_input's default value, the day the form is opened
Today == Date(2026, 11, 23)

AppIdle ==
    /\ session = [k \in SessionKeys |-> FALSE]
    /\ party_name = <<>> /\ project_name = <<>> /\ project_location = <<>>
    /\ dp_date = Date(2024, 3, 5) /\ bd_date = Date(2024, 3, 5)
    /\ uploaded_files = <<>> /\ sortable = FALSE /\ ord = <<>> /\ drag = <<>>
    /\ logo_fs = "ok" /\ cover = <<>> /\ merger = <<>>

CoverIdle == cov_in = <<>> /\ cov_out = <<>>

FitIdle ==
    /\ fit_in = <<>> /\ fit_out = <<>> /\ fit_prev = <<>>
    /\ stack_in = <<>> /\ stack_out = <<>>

\* all sequences over S of length lo..hi
SeqsOf(S, lo, hi) == UNION {[1..k -> S] : k \in lo..hi}

-----------------------------------------------------------------------------
(* Specification SpecFit: fit_multiline_text called on drawn arguments, then  *)
(* the fitted block drawn by draw_centered_stack as make_cover_pdf does       *)

FitLineSet == { <<>>, <<"I">>, <<"W","W","W">> }

FitBoxes ==
    { [bar_width |-> 612, bar_height |-> 140, side_pad |-> 48, v_pad |-> 18],
      [bar_width |-> 140, bar_height |-> 60,  side_pad |-> 48, v_pad |-> 18],
      [bar_width |-> 90,  bar_height |-> 30,  side_pad |-> 48, v_pad |-> 18],
      [bar_width |-> 200, bar_height |-> 140, side_pad |-> 0,  v_pad |-> 0],
      [bar_width |-> 612, bar_height |-> 37,  side_pad |-> 48, v_pad |-> 18] }

FitSizeBounds ==
    { [min_pt |-> 14, max_pt |-> 36], [min_pt |-> 1, max_pt |-> 100],
      [min_pt |-> 20, max_pt |-> 20] }

FitLeadingFactors == { Rat(112, 100), Rat(1, 2), Rat(-1, 2) }

FitArgs ==
    { [lines |-> l, box |-> b, pts |-> p, leading_factor |-> f] :
        l \in SeqsOf(FitLineSet, 0, MaxLines), b \in FitBoxes,
        p \in FitSizeBounds, f \in FitLeadingFactors }

Fit(a) ==
    fit_multiline_text(a.lines, a.box.bar_width, a.box.bar_height,
                       a.box.side_pad, a.box.v_pad,
                       a.pts.max_pt, a.pts.min_pt, a.leading_factor)

InitFit ==
    /\ AppIdle /\ CoverIdle
    /\ fit_in \in {<<a>> : a \in FitArgs}
    /\ fit_out = <<>> /\ fit_prev = <<>>
    /\ stack_in = <<>> /\ stack_out = <<>>

CallFit ==
    /\ fit_out = <<>>
    /\ fit_out' = <<Fit(fit_in[1])>>
    /\ UNCHANGED <<fit_in, fit_prev, stack_in, stack_out, appVars, coverVars>>

AppendLine(x) ==
    /\ fit_out # <<>> /\ fit_prev = <<>>
    /\ Len(fit_in[1].lines) < MaxLines
    /\ fit_prev' = fit_out
    /\ fit_in' = <<[fit_in[1] EXCEPT !.lines = Append(@, x)]>>
    /\ fit_out' = <<Fit(fit_in'[1])>>
    /\ stack_in' = <<>> /\ stack_out' = <<>>
    /\ UNCHANGED <<appVars, coverVars>>

DrawFitted ==
    /\ fit_out # <<>> /\ stack_out = <<>>
    /\ fit_in[1].lines # <<>>
    /\ stack_in' = <<[y_center |-> RDiv(RInt(fit_in[1].box.bar_height), RInt(2)),
                      lines |-> fit_in[1].lines, sizes |-> fit_out[1].sizes,
                      leading |-> fit_out[1].leading, optical_adjust |-> RInt(0)]>>
    /\ stack_out' = draw_centered_stack(stack_in'[1].y_center, stack_in'[1].lines,
                                        stack_in'[1].sizes, stack_in'[1].leading,
                                        stack_in'[1].optical_adjust)
    /\ UNCHANGED <<fit_in, fit_out, fit_prev, appVars, coverVars>>

NextFit ==
    \/ CallFit
    \/ \E x \in FitLineSet : AppendLine(x)
    \/ DrawFitted

SpecFit == InitFit /\ [][NextFit]_vars

-----------------------------------------------------------------------------
(* Specification SpecStack: draw_centered_stack called on drawn arguments *)

StackSizes    == { RInt(8), RInt(12), RInt(36) }
StackLeadings == { RInt(-18), RInt(0), RInt(18), Rat(1008, 25) }
StackCenters  == { RInt(140), RInt(396) }
StackAdjusts  == { RInt(0), RInt(2) }
StackTexts    == { <<"A">>, <<>> }

StackArgs ==
    UNION { { [y_center |-> c, lines |-> l, sizes |-> z, leading |-> g,
               optical_adjust |-> o] :
                l \in [1..k -> StackTexts], z \in [1..k -> StackSizes],
                g \in StackLeadings, c \in StackCenters, o \in StackAdjusts }
            : k \in 1..MaxLines }

InitStack ==
    /\ AppIdle /\ CoverIdle
    /\ fit_in = <<>> /\ fit_out = <<>> /\ fit_prev = <<>>
    /\ stack_in \in {<<a>> : a \in StackArgs}
    /\ stack_out = <<>>

DrawStack ==
    /\ stack_out = <<>>
    /\ stack_out' = draw_centered_stack(stack_in[1].y_center, stack_in[1].lines,
                                        stack_in[1].sizes, stack_in[1].leading,
                                        stack_in[1].optical_adjust)
    /\ UNCHANGED <<stack_in, fit_in, fit_out, fit_prev, appVars, coverVars>>

NextStack == DrawStack

SpecStack == InitStack /\ [][NextStack]_vars

-----------------------------------------------------------------------------
(* Specification SpecCover: make_cover_pdf called on drawn arguments *)

AcmeTower  == <<"A","c","m","e"," ","T","o","w","e","r">>
ChicagoIL  == <<"C","h","i","c","a","g","o",","," ","I","L">>
JomarValve == <<"J","o","m","a","r"," ","V","a","l","v","e">>
LogoPath   == <<"l","o","g","o",".","p","n","g">>

FsStates == {"absent", "unreadable", "ok"}

CoverArgs ==
    { [logo_path |-> lp, fs |-> fs, project_name |-> pn, project_location |-> pl,
       party_label |-> r, party_name |-> py, date_prepared |-> dp,
       bid_date |-> bd, bid_date_tbc |-> t, bid_date_na |-> na] :
        lp \in {<<>>, LogoPath}, fs \in FsStates,
        pn \in {<<>>, AcmeTower}, pl \in {<<>>, ChicagoIL},
        r \in {None} \cup {RoleNames[i] : i \in 1..4}, py \in {<<>>, <<" ">>, JomarValve},
        dp \in {None} \cup Dates, bd \in {None} \cup Dates,
        t \in BOOLEAN, na \in BOOLEAN }

Cover(a) ==
    make_cover_pdf(a.logo_path, a.fs, a.project_name, a.project_location,
                   a.party_label, a.party_name, a.date_prepared,
                   a.bid_date, a.bid_date_tbc, a.bid_date_na)

InitCover ==
    /\ AppIdle /\ FitIdle
    /\ cov_in \in {<<a>> : a \in CoverArgs}
    /\ cov_out = <<>>

CallMakeCover ==
    /\ cov_out = <<>>
    /\ cov_out' = <<Cover(cov_in[1])>>
    /\ UNCHANGED <<cov_in, appVars, fitVars>>

NextCover == CallMakeCover

SpecCover == InitCover /\ [][NextCover]_vars

-----------------------------------------------------------------------------
(* Specification Spec: the Streamlit form.  Every action is one user          *)
(* interaction: the widget's value changes, its on_change callback runs, and  *)
(* the script reruns; a rerun in which the Generate button was not pressed    *)
(* produces no cover and no merged file.                                      *)

FileNames  == {"a.pdf", "b.pdf"}
PartyNames == {<<>>, JomarValve}
ProjNames  == {<<>>, AcmeTower}
ProjPlaces == {<<>>, ChicagoIL}
RoleKeySet == {RoleKeys[i] : i \in 1..4}

\* role_checkbox_group._set_only
set_only_skip_first(sess, this_key) ==
    [k \in DOMAIN sess |->
        IF k \in RoleKeySet \ {RoleKeys[1]} /\ k # this_key THEN FALSE ELSE sess[k]]

set_only(sess, this_key) ==
    [k \in DOMAIN sess |->
        IF k \in RoleKeySet /\ k # this_key THEN FALSE ELSE sess[k]]

\* role_checkbox_group's return value: the first checked role, else None
role_checkbox_group(sess) ==
    IF \E i \in 1..4 : sess[RoleKeys[i]]
    THEN RoleNames[CHOOSE i \in 1..4 :
                      sess[RoleKeys[i]] /\ \A j \in 1..(i - 1) : ~sess[RoleKeys[j]]]
    ELSE None

\* bid_date_picker_with_flags._on_tbc_change / _on_na_change
on_tbc_change_noop(sess) == sess

on_tbc_change(sess) == IF sess[TbcKey] THEN [sess EXCEPT ![NaKey] = FALSE] ELSE sess

on_na_change(sess) == IF sess[NaKey] THEN [sess EXCEPT ![TbcKey] = FALSE] ELSE sess

\* bid_date_picker_with_flags' return value
bid_date_picker_with_flags(sess, date_val) ==
    [date_val |-> IF sess[TbcKey] \/ sess[NaKey] THEN None ELSE date_val,
     tbc |-> sess[TbcKey], na |-> sess[NaKey]]

\* fallback sort_labels: rows sorted by their order number, ties in row order
RECURSIVE rows_by_order(_, _, _)
rows_by_order(orders, o, n) ==
    IF o > n THEN <<>>
    ELSE SelectSeq([i \in 1..Len(orders) |-> i], LAMBDA i : orders[i] = o)
         \o rows_by_order(orders, o + 1, n)

sort_labels(labels, orders) ==
    LET rows == rows_by_order(orders, 1, Len(labels))
    IN  [j \in 1..Len(rows) |-> labels[rows[j]]]

\* label_to_idxs: each label's upload indices, ascending
label_to_idxs(labels) ==
    [l \in {labels[i] : i \in 1..Len(labels)} |->
        SelectSeq([i \in 1..Len(labels) |-> i], LAMBDA i : labels[i] = l)]

\* [uploaded_files[label_to_idxs[lbl].pop(0)] for lbl in ordered_labels]
RECURSIVE map_back_no_pop(_, _)
map_back_no_pop(ordered_labels, idxs) ==
    IF ordered_labels = <<>> THEN <<>>
    ELSE LET lbl == Head(ordered_labels)
         IN  <<Head(idxs[lbl])>> \o map_back_no_pop(Tail(ordered_labels), idxs)

RECURSIVE map_back(_, _)
map_back(ordered_labels, idxs) ==
    IF ordered_labels = <<>> THEN <<>>
    ELSE LET lbl == Head(ordered_labels)
         IN  <<Head(idxs[lbl])>>
             \o map_back(Tail(ordered_labels), [idxs EXCEPT ![lbl] = Tail(@)])

\* the order the reorder UI returns in this run
ordered_labels_now ==
    IF sortable THEN drag ELSE sort_labels(uploaded_files, ord)

\* ordered_files, as indices into uploaded_files
ordered_files_now ==
    IF uploaded_files # <<>>
    THEN map_back(ordered_labels_now, label_to_idxs(uploaded_files))
    ELSE <<>>

\* p holds the same labels as q, each as often
IsReordering(p, q) ==
    /\ Len(p) = Len(q)
    /\ \A l \in FileNames :
          Cardinality({i \in 1..Len(p) : p[i] = l})
            = Cardinality({i \in 1..Len(q) : q[i] = l})

Init ==
    /\ session = [k \in SessionKeys |-> FALSE]
    /\ party_name = <<>> /\ project_name = <<>> /\ project_location = <<>>
    /\ dp_date = Today /\ bd_date = Today
    /\ uploaded_files = <<>> /\ ord = <<>> /\ drag = <<>>
    /\ sortable \in BOOLEAN
    /\ logo_fs \in {"absent", "ok"}    \* the logo ships with the app, or was left out
    /\ cover = <<>> /\ merger = <<>>
    /\ CoverIdle /\ FitIdle

\* a rerun without the Generate button: nothing is generated
NoOutput == cover' = <<>> /\ merger' = <<>>

ToggleRole(i) ==
    /\ session' = set_only([session EXCEPT ![RoleKeys[i]] = ~@], RoleKeys[i])
    /\ NoOutput
    /\ UNCHANGED <<party_name, project_name, project_location, dp_date, bd_date,
                   uploaded_files, sortable, ord, drag, logo_fs, coverVars, fitVars>>

ToggleTbc ==
    /\ session' = on_tbc_change([session EXCEPT ![TbcKey] = ~@])
    /\ NoOutput
    /\ UNCHANGED <<party_name, project_name, project_location, dp_date, bd_date,
                   uploaded_files, sortable, ord, drag, logo_fs, coverVars, fitVars>>

ToggleNa ==
    /\ session' = on_na_change([session EXCEPT ![NaKey] = ~@])
    /\ NoOutput
    /\ UNCHANGED <<party_name, project_name, project_location, dp_date, bd_date,
                   uploaded_files, sortable, ord, drag, logo_fs, coverVars, fitVars>>

EditText(py, pn, pl) ==
    /\ <<py, pn, pl>> # <<party_name, project_name, project_location>>
    /\ \/ pn = project_name /\ pl = project_location
       \/ py = party_name /\ pl = project_location
       \/ py = party_name /\ pn = project_name
    /\ party_name' = py /\ project_name' = pn /\ project_location' = pl
    /\ NoOutput
    /\ UNCHANGED <<session, dp_date, bd_date, uploaded_files, sortable, ord, drag,
                   logo_fs, coverVars, fitVars>>

SetDatePrepared(d) ==
    /\ d # dp_date
    /\ dp_date' = d
    /\ NoOutput
    /\ UNCHANGED <<session, party_name, project_name, project_location, bd_date,
                   uploaded_files, sortable, ord, drag, logo_fs, coverVars, fitVars>>

SetBidDate(d) ==
    /\ ~(session[TbcKey] \/ session[NaKey])      \* the input is disabled otherwise
    /\ d # bd_date
    /\ bd_date' = d
    /\ NoOutput
    /\ UNCHANGED <<session, party_name, project_name, project_location, dp_date,
                   uploaded_files, sortable, ord, drag, logo_fs, coverVars, fitVars>>

\* the uploader's list changed: the order widgets are rebuilt with their defaults
FilesChanged(files) ==
    /\ uploaded_files' = files
    /\ ord' = [i \in 1..Len(files) |-> i]
    /\ drag' = files
    /\ NoOutput
    /\ UNCHANGED <<session, party_name, project_name, project_location, dp_date,
                   bd_date, sortable, logo_fs, coverVars, fitVars>>

AddFile(name) ==
    /\ Len(uploaded_files) < MaxFormFiles
    /\ FilesChanged(Append(uploaded_files, name))

UploadFile(name) ==
    /\ Len(uploaded_files) < MaxFiles
    /\ FilesChanged(Append(uploaded_files, name))

RemoveFile(i) ==
    /\ i \in 1..Len(uploaded_files)
    /\ FilesChanged(SubSeq(uploaded_files, 1, i - 1)
                    \o SubSeq(uploaded_files, i + 1, Len(uploaded_files)))

SetOrder(i, o) ==
    /\ ~sortable
    /\ i \in 1..Len(uploaded_files) /\ o \in 1..Len(uploaded_files)
    /\ ord' = [ord EXCEPT ![i] = o]
    /\ NoOutput
    /\ UNCHANGED <<session, party_name, project_name, project_location, dp_date,
                   bd_date, uploaded_files, sortable, drag, logo_fs, coverVars, fitVars>>

DragTo(p) ==
    /\ sortable
    /\ uploaded_files # <<>>
    /\ IsReordering(p, uploaded_files)
    /\ drag' = p
    /\ NoOutput
    /\ UNCHANGED <<session, party_name, project_name, project_location, dp_date,
                   bd_date, uploaded_files, sortable, ord, logo_fs, coverVars, fitVars>>

Generate ==
    /\ uploaded_files # <<>>
    /\ LET picker == bid_date_picker_with_flags(session, bd_date)
           page   == make_cover_pdf(LogoPath, logo_fs, project_name, project_location,
                                    role_checkbox_group(session), party_name, dp_date,
                                    picker.date_val, picker.tbc, picker.na)
           final_files == IF ordered_files_now # <<>> THEN ordered_files_now
                          ELSE [i \in 1..Len(uploaded_files) |-> i]
       IN  /\ cover' = <<page>>
           /\ merger' = IF page.completed
                        THEN <<[kind |-> "cover", idx |-> 0]>>
                             \o [j \in 1..Len(final_files) |->
                                    [kind |-> "file", idx |-> final_files[j]]]
                        ELSE <<>>
    /\ UNCHANGED <<session, party_name, project_name, project_location, dp_date,
                   bd_date, uploaded_files, sortable, ord, drag, logo_fs,
                   coverVars, fitVars>>

Next ==
    \/ \E i \in 1..4 : ToggleRole(i)
    \/ ToggleTbc
    \/ ToggleNa
    \/ \E py \in PartyNames, pn \in ProjNames, pl \in ProjPlaces : EditText(py, pn, pl)
    \/ \E d \in Dates : SetDatePrepared(d)
    \/ \E d \in Dates : SetBidDate(d)
    \/ \E name \in FileNames : AddFile(name)
    \/ \E i \in 1..MaxFiles : RemoveFile(i)
    \/ \E i \in 1..MaxFiles, o \in 1..MaxFiles : SetOrder(i, o)
    \/ \E p \in SeqsOf(FileNames, 1, MaxFiles) : DragTo(p)
    \/ Generate

Spec == Init /\ [][Next]_vars

-----------------------------------------------------------------------------
(* Specification SpecFiles: the same form with only the uploader, the reorder *)
(* UI and the Generate button exercised, for longer file lists                *)

NextFiles ==
    \/ \E name \in FileNames : UploadFile(name)
    \/ \E i \in 1..MaxFiles : RemoveFile(i)
    \/ \E i \in 1..MaxFiles, o \in 1..MaxFiles : SetOrder(i, o)
    \/ \E p \in SeqsOf(FileNames, 1, MaxFiles) : DragTo(p)
    \/ Generate

SpecFiles == Init /\ [][NextFiles]_vars

-----------------------------------------------------------------------------
(* Properties of the form (Spec, SpecFiles) *)

CheckedRoles == {i \in 1..4 : session[RoleKeys[i]]}

\* C6: after any sequence of toggles of the two bid-date checkboxes, the
\* to-be-confirmed flag and the not-applicable flag, in session state and as
\* returned by bid_date_picker_with_flags, are never both true.
C6_BidFlagsExclusive ==
    /\ ~(session[TbcKey] /\ session[NaKey])
    /\ LET r == bid_date_picker_with_flags(session, bd_date)
       IN  ~(r.tbc /\ r.na)

\* C6 witness: "Not Applicable" is checked, "To Be Confirmed" is not, and the
\* picker returns no date
C6_Witness ==
    /\ session[NaKey] /\ ~session[TbcKey]
    /\ bid_date_picker_with_flags(session, bd_date).date_val = None

\* C10: at most one role checkbox is checked, and role_checkbox_group returns
\* exactly that role, or None when no checkbox is checked.
C10_OneRole ==
    /\ Cardinality(CheckedRoles) <= 1
    /\ \A i \in CheckedRoles : role_checkbox_group(session) = RoleNames[i]
    /\ CheckedRoles = {} => role_checkbox_group(session) = None

\* C10 witness: a role other than the first is the one checked
C10_Witness ==
    /\ session[RoleKeys[3]]
    /\ role_checkbox_group(session) = Distributor

MergedIdx == [j \in 1..(Len(merger) - 1) |-> merger[j + 1].idx]

\* C7: Generate appends the cover page first, then every uploaded file exactly
\* once, in the chosen name order, files sharing a name in upload order.
C7_CoverThenFilesInOrder ==
    merger # <<>> =>
        LET n == Len(uploaded_files)
            m == MergedIdx
        IN  /\ merger[1].kind = "cover"
            /\ Len(merger) = n + 1
            /\ \A j \in 2..Len(merger) : merger[j].kind = "file"
            /\ \A i \in 1..n : Cardinality({j \in 1..Len(m) : m[j] = i}) = 1
            /\ [j \in 1..Len(m) |-> uploaded_files[m[j]]] = ordered_labels_now
            /\ \A j, k \in 1..Len(m) :
                  (j < k /\ uploaded_files[m[j]] = uploaded_files[m[k]]) => m[j] < m[k]

\* C7 witness: three files, two of them sharing a name, merged in an order
\* other than the upload order
C7_Witness ==
    /\ merger # <<>>
    /\ Len(uploaded_files) = 3
    /\ uploaded_files[1] = uploaded_files[3] /\ uploaded_files[1] # uploaded_files[2]
    /\ MergedIdx # <<1, 2, 3>>

-----------------------------------------------------------------------------
(* Properties of fit_multiline_text (SpecFit) *)

\* the uniform size of a result: leading / leading_factor (defined for n = 0 too)
SizeOf(r, a) == RDiv(r.leading, a.leading_factor)

\* C1: with min_pt <= max_pt the returned uniform size lies in [min_pt, max_pt],
\* there is one entry of sizes per line, every entry equals that size, and the
\* returned leading is size * leading_factor.
C1_SizeWithinBounds ==
    fit_out # <<>> =>
        LET a == fit_in[1]
            r == fit_out[1]
        IN  /\ Len(r.sizes) = Len(a.lines)
            /\ RLe(RInt(a.pts.min_pt), SizeOf(r, a))
            /\ RLe(SizeOf(r, a), RInt(a.pts.max_pt))
            /\ \A i \in 1..Len(r.sizes) :
                  /\ r.sizes[i] = SizeOf(r, a)
                  /\ RMul(r.sizes[i], a.leading_factor) = r.leading

\* C1 witness: a fit of several lines whose size is strictly inside the bounds
C1_Witness ==
    /\ fit_out # <<>>
    /\ Len(fit_in[1].lines) >= 2
    /\ RLt(RInt(fit_in[1].pts.min_pt), fit_out[1].sizes[1])
    /\ RLt(fit_out[1].sizes[1], RInt(fit_in[1].pts.max_pt))

\* top edge and bottom edge of drawn line i
LineTop(d, i) == RAdd(d[i].y, RMul(asc_u, d[i].sz))
LineBot(d, i) == RSub(d[i].y, RMul(des_u, d[i].sz))

\* the size was not raised by the lower clamp
NotRaisedToMin(a) ==
    LET safe_w == safe_extent(a.box.bar_width, a.box.side_pad)
        safe_h == safe_extent(a.box.bar_height, a.box.v_pad)
        wc     == width_cap_of(a.lines, safe_w, a.pts.max_pt)
        hc     == height_cap_of(Len(a.lines), safe_h, a.pts.max_pt, a.leading_factor)
    IN  RLe(RInt(a.pts.min_pt), RMin(RMin(wc, hc), RInt(a.pts.max_pt)))

Texts(d) == [i \in 1..Len(d) |-> d[i].txt]

\* the block d, drawn for a fit with arguments a, lies inside the box net of padding
FitsInsideBox(a, d) ==
    NotRaisedToMin(a) =>
        /\ \A i \in 1..Len(d) :
              RLe(RMul(stringWidth1(d[i].txt), d[i].sz),
                  RInt(a.box.bar_width - 2 * a.box.side_pad))
        /\ RLe(RSub(LineTop(d, 1), LineBot(d, Len(d))),
               RInt(a.box.bar_height - 2 * a.box.v_pad))

\* the arguments make_cover_pdf gives fit_multiline_text for the title block
TitleFitArgs(page) ==
    [lines |-> Texts(page.title),
     box |-> [bar_width |-> PageWidth, bar_height |-> bar_height,
              side_pad |-> title_side_pad, v_pad |-> title_v_pad],
     pts |-> [max_pt |-> title_max_pt, min_pt |-> title_min_pt],
     leading_factor |-> title_leading_factor]

\* C2: when the size was not raised to min_pt, the block drawn at the returned
\* size and leading fits the box net of padding: every line is at most
\* bar_width - 2*side_pad wide, and the extent from the top of the first line
\* to the bottom of the last line is at most bar_height - 2*v_pad.  Stated for
\* every fitted block: one drawn from a direct call, and the title block of a
\* generated cover page.
C2_FitsInsideBox ==
    /\ (fit_out # <<>> /\ stack_out # <<>>) => FitsInsideBox(fit_in[1], stack_out)
    /\ (cover # <<>> /\ cover[1].completed)
          => FitsInsideBox(TitleFitArgs(cover[1]), cover[1].title)

\* C3: for fixed box, paddings, size bounds (positive) and leading factor (not
\* zero), appending a line, empty or not, never increases the returned size.
C3_AppendNeverIncreases ==
    fit_prev # <<>> =>
        RLe(SizeOf(fit_out[1], fit_in[1]), SizeOf(fit_prev[1], fit_in[1]))

\* C3 witness: an appended line that lowered the size
C3_Witness ==
    /\ fit_prev # <<>>
    /\ RLt(SizeOf(fit_out[1], fit_in[1]), SizeOf(fit_prev[1], fit_in[1]))

-----------------------------------------------------------------------------
(* Properties of draw_centered_stack (SpecStack) *)

RECURSIVE UnionTop(_, _)
UnionTop(d, n) == IF n = 1 THEN LineTop(d, 1) ELSE RMax(LineTop(d, n), UnionTop(d, n - 1))

RECURSIVE UnionBot(_, _)
UnionBot(d, n) == IF n = 1 THEN LineBot(d, 1) ELSE RMin(LineBot(d, n), UnionBot(d, n - 1))

Drawn0 == stack_out # <<>> /\ stack_in[1].optical_adjust = RInt(0)

UniformSizes(z) == \A i \in 1..Len(z) : z[i] = z[1]

\* C4 as claimed: with optical_adjust = 0, for any number of lines and any
\* per-line sizes, the union of the lines' extents has its top and bottom edges
\* equidistant from y_center.
C4_UnionCentered ==
    Drawn0 =>
        LET d  == stack_out
            yc == stack_in[1].y_center
        IN  RSub(UnionTop(d, Len(d)), yc) = RSub(yc, UnionBot(d, Len(d)))

\* C4 amended: with optical_adjust = 0 the top edge of the first line and the
\* bottom edge of the last line are equidistant from y_center for any per-line
\* sizes; the union of the extents is centred when all sizes are equal
\* (one-line blocks included).
C4_FirstTopLastBottomCentered ==
    Drawn0 =>
        LET d  == stack_out
            yc == stack_in[1].y_center
            n  == Len(d)
        IN  /\ RSub(LineTop(d, 1), yc) = RSub(yc, LineBot(d, n))
            /\ UniformSizes(stack_in[1].sizes)
                  => RSub(UnionTop(d, n), yc) = RSub(yc, UnionBot(d, n))

\* C4 witness: a drawn block of several lines of different sizes
C4_Witness ==
    /\ Drawn0
    /\ Len(stack_out) >= 2
    /\ ~UniformSizes(stack_in[1].sizes)

-----------------------------------------------------------------------------
(* Properties of make_cover_pdf (SpecCover) *)

ACME_TOWER  == <<"A","C","M","E"," ","T","O","W","E","R">>
CHICAGO_IL  == <<"C","H","I","C","A","G","O",","," ","I","L">>
JOMAR_VALVE == <<"J","O","M","A","R"," ","V","A","L","V","E">>
RECIPIENT   == <<"R","E","C","I","P","I","E","N","T">>
CONTRACTOR  == <<"C","O","N","T","R","A","C","T","O","R">>
ENGINEER    == <<"E","N","G","I","N","E","E","R">>
DISTRIBUTOR == <<"D","I","S","T","R","I","B","U","T","O","R">>
UTILITY     == <<"U","T","I","L","I","T","Y">>
Date_3_5_2024   == <<"3","/","5","/","2","0","2","4">>
Date_11_23_2026 == <<"1","1","/","2","3","/","2","0","2","6">>

ExpectedName(t)  == IF t = <<>> THEN TO_BE_CONFIRMED ELSE ACME_TOWER
ExpectedPlace(t) == IF t = <<>> THEN TO_BE_CONFIRMED ELSE CHICAGO_IL
\* a party name of one space is not empty: it is kept as typed
ExpectedParty(t) ==
    IF t = <<>> THEN TO_BE_CONFIRMED ELSE IF t = <<" ">> THEN <<" ">> ELSE JOMAR_VALVE
ExpectedRole(r)  ==
    CASE r = None -> RECIPIENT
      [] r = Contractor -> CONTRACTOR
      [] r = Engineer -> ENGINEER
      [] r = Distributor -> DISTRIBUTOR
      [] r = Utility -> UTILITY
ExpectedDate(d)  ==
    CASE d = None -> TO_BE_CONFIRMED
      [] d = Date(2024, 3, 5) -> Date_3_5_2024
      [] d = Date(2026, 11, 23) -> Date_11_23_2026

StartsWith(t, pre) == Len(t) >= Len(pre) /\ SubSeq(t, 1, Len(pre)) = pre

\* C5: if bid_date_na is set the bottom block has exactly 2 lines and none starts
\* with "BID DATE:"; otherwise it has exactly 3 lines, the third being
\* "BID DATE: TO BE CONFIRMED" when bid_date_tbc is set or no date was supplied,
\* and "BID DATE: M/D/YYYY" of the supplied date otherwise.
C5_BidDateLine ==
    cov_out # <<>> =>
        LET a  == cov_in[1]
            lb == Texts(cov_out[1].bottom)
        IN  IF a.bid_date_na
            THEN /\ Len(lb) = 2
                 /\ \A i \in 1..Len(lb) : ~StartsWith(lb[i], <<"B","I","D">>)
            ELSE /\ Len(lb) = 3
                 /\ lb[3] = IF a.bid_date_tbc \/ a.bid_date = None
                            THEN BID_DATE_ \o TO_BE_CONFIRMED
                            ELSE BID_DATE_ \o ExpectedDate(a.bid_date)

\* C5 witness: the to-be-confirmed flag set together with a concrete date
C5_Witness ==
    /\ cov_out # <<>>
    /\ cov_in[1].bid_date_tbc /\ ~cov_in[1].bid_date_na
    /\ cov_in[1].bid_date # None
    /\ Len(cov_out[1].bottom) = 3

LogoUsable(a) == a.logo_path # <<>> /\ a.fs = "ok"

\* C8: make_cover_pdf always completes and emits exactly one page; when the logo
\* path is empty or missing, or drawing the logo raises, one warning is surfaced,
\* no logo is drawn, and border, banner, title block and bottom block are drawn
\* and the page finalized exactly as in the logo-present case.
C8_LogoNeverFatal ==
    cov_out # <<>> =>
        LET a    == cov_in[1]
            r    == cov_out[1]
            good == Cover([a EXCEPT !.logo_path = LogoPath, !.fs = "ok"])
        IN  /\ r.completed /\ r.pages = 1
            /\ SelectSeq(r.ops, LAMBDA o : o # "logo")
                 = <<"border", "banner", "title", "bottom", "showPage", "save">>
            /\ r.title = good.title /\ r.bottom = good.bottom
            /\ Len(r.title) = 3 /\ Len(r.bottom) >= 2
            /\ IF LogoUsable(a)
               THEN r.warnings = <<>> /\ r.ops = good.ops
               ELSE /\ Len(r.warnings) = 1
                    /\ \A i \in 1..Len(r.ops) : r.ops[i] # "logo"

\* C8 witness: a call in which reading the logo raised
C8_Witness ==
    /\ cov_out # <<>>
    /\ cov_in[1].logo_path # <<>> /\ cov_in[1].fs = "unreadable"
    /\ cov_out[1].pages = 1

\* C9: empty inputs are replaced by their placeholders and the text is upper-cased:
\* the title block is [NAME, LOCATION, "SUBMITTAL PACKAGE"], the first bottom line
\* is "<ROLE>: <PARTY>" (RECIPIENT without a role, TO BE CONFIRMED without a party),
\* the second is "DATE PREPARED: " followed by TO BE CONFIRMED or M/D/YYYY without
\* leading zeros.
C9_PlaceholdersAndUppercase ==
    cov_out # <<>> =>
        LET a  == cov_in[1]
            tl == Texts(cov_out[1].title)
            lb == Texts(cov_out[1].bottom)
        IN  /\ tl = <<ExpectedName(a.project_name), ExpectedPlace(a.project_location),
                      SUBMITTAL_PACKAGE>>
            /\ lb[1] = ExpectedRole(a.party_label) \o <<":", " ">>
                          \o ExpectedParty(a.party_name)
            /\ lb[2] = DATE_PREPARED_ \o ExpectedDate(a.date_prepared)

\* C9 witness: nothing filled in but a date prepared with one-digit month and day
C9_Witness ==
    /\ cov_out # <<>>
    /\ cov_in[1].project_name = <<>> /\ cov_in[1].party_label = None
    /\ cov_in[1].party_name = <<>>
    /\ cov_in[1].date_prepared = Date(2024, 3, 5)
    /\ Len(cov_out[1].bottom) >= 2

====
